---------------------------- MODULE Spec2Model ----------------------------
(***************************************************************************)
(* Ray tracing of an internal wave through the satGEM field                *)
(* (ray_tracing_satGEM.py): Wave.__init__, satGEM_field.locate,            *)
(* inverse_hav, the ray equations and the loop of run_tracing.             *)
(*                                                                         *)
(* Numbers.  The program computes in IEEE doubles.  A number is modelled   *)
(* as an extended rational [n, d]: d > 0 is the finite value n/d in lowest *)
(* terms, d = 0 is +inf (n = 1), -inf (n = -1) or NaN (n = 0).  The        *)
(* arithmetic follows numpy's: x/0 is +-inf, 0/0, inf-inf and 0*inf are    *)
(* NaN, every comparison with NaN is false.  Like a double, a number has a *)
(* finite range and precision: a result of magnitude MaxMag or more        *)
(* overflows to +-inf, a result n/d with d <= Prec is exact, and any other *)
(* is rounded to a multiple of 1/Prec.  The sign of zero is not modelled.  *)
(***************************************************************************)
EXTENDS Integers, Sequences, FiniteSets, TLC

-----------------------------------------------------------------------------
(* Extended rational arithmetic *)

\* the one element of a singleton: Only({e(v) : v \in {a}}) is e(a) with a
\* evaluated once, the way the program computes a value once and reuses it
Only(S) == CHOOSE v \in S : TRUE

\* range and precision of a number
MaxMag == 128
Prec   == 300

\* largest divisor the rounding divides by without scaling
RoundLimit == 1000000

IAbs(a) == IF a < 0 THEN -a ELSE a

ISign(a) == IF a < 0 THEN -1 ELSE IF a > 0 THEN 1 ELSE 0

gcd[a \in Nat, b \in Nat] == IF b = 0 THEN a ELSE gcd[b, a % b]

\* n/d in lowest terms with a positive denominator, for d # 0
Lowest(n, d) ==
    Only({[n |-> (ISign(d) * n) \div g, d |-> IAbs(d) \div g]
          : g \in {gcd[IAbs(n), IAbs(d)]}})

\* the representable number nearest the finite a
Rounded(a) ==
    IF IAbs(a.n) \div a.d >= MaxMag THEN [n |-> ISign(a.n), d |-> 0]
    ELSE IF a.d <= Prec THEN a
    ELSE LET c  == IF a.d > RoundLimit THEN (a.d \div RoundLimit) + 1 ELSE 1
             q  == IAbs(a.n) \div a.d
             r  == (IAbs(a.n) % a.d) \div c
             dd == a.d \div c
             fr == (2 * r * Prec + dd) \div (2 * dd)
         IN  Lowest(ISign(a.n) * (q * Prec + fr), Prec)

\* the number that the exact result n/d of an operation becomes
Fl(n, d) ==
    IF d = 0 THEN [n |-> ISign(n), d |-> 0]
    ELSE Only({Rounded(a) : a \in {Lowest(n, d)}})

\* the number n/d, written in the model
Q(n, d) == Fl(n, d)

Zero == [n |-> 0, d |-> 1]
NaN  == [n |-> 0, d |-> 0]
I(n) == [n |-> n, d |-> 1]

IsNaN(a) == a.d = 0 /\ a.n = 0
IsInf(a) == a.d = 0 /\ a.n # 0
isfinite(a) == a.d # 0

NegV(a) == [n |-> -a.n, d |-> a.d]

AbsV(a) == [n |-> IAbs(a.n), d |-> a.d]

AddV(a, b) ==
    IF IsNaN(a) \/ IsNaN(b) THEN NaN
    ELSE IF IsInf(a) /\ IsInf(b) THEN (IF a.n = b.n THEN a ELSE NaN)
    ELSE IF IsInf(a) THEN a
    ELSE IF IsInf(b) THEN b
    ELSE Fl(a.n * b.d + b.n * a.d, a.d * b.d)

MulV(a, b) ==
    IF IsNaN(a) \/ IsNaN(b) THEN NaN
    ELSE IF IsInf(a) \/ IsInf(b)
         THEN [n |-> ISign(a.n) * ISign(b.n), d |-> 0]
    ELSE Fl(a.n * b.n, a.d * b.d)

DivV(a, b) ==
    IF IsNaN(a) \/ IsNaN(b) THEN NaN
    ELSE IF IsInf(b) THEN (IF IsInf(a) THEN NaN ELSE Zero)
    ELSE IF IsInf(a) THEN [n |-> a.n * (IF b.n < 0 THEN -1 ELSE 1), d |-> 0]
    ELSE Fl(a.n * b.d, a.d * b.n)

LtV(a, b) ==
    IF IsNaN(a) \/ IsNaN(b) THEN FALSE
    ELSE IF IsInf(a) \/ IsInf(b)
         THEN (IF IsInf(a) /\ IsInf(b) THEN a.n < b.n
               ELSE IF IsInf(a) THEN a.n < 0 ELSE b.n > 0)
    ELSE a.n * b.d < b.n * a.d

\* The operations, each on the values of its operands
Neg(a)    == Only({NegV(v) : v \in {a}})
Abs(a)    == Only({AbsV(v) : v \in {a}})
Add(a, b) == Only({AddV(v, w) : v \in {a}, w \in {b}})
Sub(a, b) == Only({AddV(v, NegV(w)) : v \in {a}, w \in {b}})
Mul(a, b) == Only({MulV(v, w) : v \in {a}, w \in {b}})
Div(a, b) == Only({DivV(v, w) : v \in {a}, w \in {b}})
Sq(a)     == Only({MulV(v, v) : v \in {a}})
Lt(a, b)  == Only({LtV(v, w) : v \in {a}, w \in {b}})

(* np.sqrt of a non-negative value.  The field values the model draws are  *)
(* squares of rationals, so the root is exact.                             *)
ISqrt(n) == CHOOSE r \in 0..n : r * r <= n /\ (r + 1) * (r + 1) > n

SqrtV(a) ==
    IF IsNaN(a) THEN NaN
    ELSE IF a.n < 0 THEN NaN
    ELSE IF IsInf(a) THEN a
    ELSE Fl(ISqrt(a.n), ISqrt(a.d))

Sqrt(a) == Only({SqrtV(v) : v \in {a}})

(* nearest integer to a finite rational (halves round up) *)
Round(a) == (2 * a.n + a.d) \div (2 * a.d)

-----------------------------------------------------------------------------
(* Bounds of the model *)

\* longest run, in hours (the duration argument ranges over 1..MaxHours)
MaxHours == 2

-----------------------------------------------------------------------------
(* Program constants.  The arithmetic is exact, so the inputs are small     *)
(* numbers and the constants that convert between units are scaled to     *)
(* them: a step of tstep = 1 is half an hour of the run's duration, and a   *)
(* degree of latitude is two units of length.                              *)

\* timedelta(hours=duration) against timedelta(seconds=tstep): steps of
\* tstep = 1 in an hour
StepsPerHour == 2

\* y/111.11e3: length of one degree of latitude
DegLen == 2

\* start time of every run, datetime(2012, 11, 2, 3, 0, 0), as the origin
\* of the model's time axis (seconds)
T0Fixed == 0

-----------------------------------------------------------------------------
(* Ray equations *)

CGz(Omega, k, l, m, f, N2) ==
    LET K2 == Add(Add(Sq(k), Sq(l)), Sq(m))
    IN  Div(Mul(Mul(Mul(I(-1), Add(Sq(k), Sq(l))), m), Sub(N2, Sq(f))),
            Mul(Sq(K2), Omega))

CGx(N2, Omega, k, l, m, u, f) ==
    LET K2 == Add(Add(Sq(k), Sq(l)), Sq(m))
    IN  Add(Div(Mul(Mul(k, Sq(m)), Sub(N2, Sq(f))), Mul(Sq(K2), Omega)), u)

CGy(N2, Omega, k, l, m, v, f) ==
    LET K2 == Add(Add(Sq(k), Sq(l)), Sq(m))
    IN  Add(Div(Mul(Mul(l, Sq(m)), Sub(N2, Sq(f))), Mul(Sq(K2), Omega)), v)

refraction(N, k, l, m, dN, di, Omega) ==
    LET K == Add(Add(Sq(k), Sq(l)), Sq(m))
    IN  Mul(Div(Mul(N, Add(Sq(k), Sq(l))), Mul(K, Omega)), Div(dN, di))

dk(dU, dV, dx, k, l, m, dN, N, Omega) ==
    LET ri == refraction(N, k, l, m, dN, dx, Omega)
    IN  Mul(I(-1), Add(Add(ri, Mul(k, Div(dU, dx))), Mul(l, Div(dV, dx))))

dl(dU, dV, dy, k, l, m, dN, N, Omega) ==
    LET ri == refraction(N, k, l, m, dN, dy, Omega)
    IN  Mul(I(-1), Add(Add(ri, Mul(k, Div(dU, dy))), Mul(l, Div(dV, dy))))

dm(dU, dV, dz, k, l, m, dN, N, Omega) ==
    LET ri == refraction(N, k, l, m, dN, dz, Omega)
    IN  Mul(I(-1), Add(Add(ri, Mul(k, Div(dU, dz))), Mul(l, Div(dV, dz))))

dOmega(rx, ry, rz, k, l, dU, dV) ==
    Add(Add(Add(Add(rx, ry), rx), Mul(k, dU)), Mul(l, dV))

(* gsw.f(lat), the Coriolis parameter 2*omega*sin(lat): an odd, increasing  *)
(* function of latitude, here linear in the latitude resolved to a degree.  *)
FTable(deg) == Q(deg, 2)

gsw_f(lat) == IF isfinite(lat) THEN FTable(Round(lat)) ELSE NaN

-----------------------------------------------------------------------------
(* inverse_hav *)

\* The arccos argument 1 - 2h exceeds 1 (h < 0, the result is NaN) when
\* sin(d/2r)^2 < sin(dlat/2)^2, that is sqrt(x^2+y^2)/6371e3 < |y|/(111.11e3
\* * 180/pi): |x| smaller than about |y|/HavRatio.
HavRatio == 26

\* shift = 0.5 * arccos(..) in degrees: for a small step 0.5*|x|/(r cos lat),
\* taken here with cos lat = 1: |x| / (2 * DegLen).
lon_shift(x, y) ==
    IF ~isfinite(x) \/ ~isfinite(y) THEN NaN
    ELSE IF Lt(Mul(I(HavRatio), Abs(x)), Abs(y)) THEN NaN
    ELSE Div(Abs(x), I(2 * DegLen))

inverse_hav(x, y, lon1, lat1) ==
    LET lat2  == Add(lat1, Div(y, I(DegLen)))
        shift == lon_shift(x, y)
        lon2  == IF Lt(x, Zero) THEN Sub(lon1, shift) ELSE Add(lon1, shift)
    IN  [lon |-> lon2, lat |-> lat2]

-----------------------------------------------------------------------------
(* satGEM_field: the grids and the data.  Indices are 1-based here         *)
(* (numpy's index + 1).                                                    *)

lon_grid       == <<Q(-1, 10), I(0), Q(1, 10)>>
centerlon_grid == <<Q(-1, 20), Q(1, 20)>>
lat_grid       == <<I(-2), Q(-3, 2), I(-1)>>
centerlat_grid == <<Q(-7, 4), Q(-5, 4)>>
depth_grid     == <<I(0), I(2), I(4)>>
time_grid      == <<I(-2), I(0), I(2)>>

\* gsw.Nsquared returns the profile at the mid-levels of the depth grid
p_grid == [j \in 1..(Len(depth_grid) - 1) |->
              Div(Add(depth_grid[j], depth_grid[j + 1]), I(2))]

\* np.argmin(np.abs(grid - q)): the first NaN if there is one, else the
\* first minimum
ArgMin(grid, q) ==
    LET dist(j) == Abs(Sub(grid[j], q))
        nans    == {j \in 1..Len(grid) : IsNaN(dist(j))}
        mins    == {j \in 1..Len(grid) :
                       \A h \in 1..Len(grid) : ~Lt(dist(h), dist(j))}
        first(S) == CHOOSE j \in S : \A h \in S : j <= h
    IN  IF nans # {} THEN first(nans) ELSE first(mins)

locate(lon, lat, depth, time) ==
    [lon  |-> ArgMin(lon_grid, lon),
     lat  |-> ArgMin(lat_grid, lat),
     z    |-> ArgMin(depth_grid, depth),
     t    |-> ArgMin(time_grid, time),
     clon |-> ArgMin(centerlon_grid, lon),
     clat |-> ArgMin(centerlat_grid, lat)]

(* The data sets.  A field is a triple of kinds, one per data set; the     *)
(* kinds are the synthetic fields the runs are traced through.             *)

\* gsw.Nsquared(sal[lon_idx, lat_idx, :, t_idx], temp[...], depth_grid):
\* the N2 profile of one horizontal cell at one time
Nsquared(kind, lon_idx, lat_idx, t_idx) ==
    CASE kind = "uniform" -> <<I(4), I(4)>>
      [] kind = "front"   -> IF lat_idx = 1 THEN <<I(9), I(1)>>
                             ELSE IF t_idx = 1 THEN <<I(1), I(9)>>
                             ELSE <<I(4), I(-4)>>
      [] kind = "gap"     -> IF lat_idx = 1 \/ t_idx = 3 THEN <<NaN, NaN>>
                             ELSE <<I(4), I(4)>>

\* satGEM.u[lon_idx, clat_idx, z_idx, t_idx]
u_data(kind, lon_idx, clat_idx, z_idx, t_idx) ==
    CASE kind = "rest"    -> Zero
      [] kind = "jet"     -> Q(lon_idx + t_idx - 3, 2)
      [] kind = "gap"     -> IF clat_idx = 1 \/ t_idx # 2 THEN NaN ELSE Zero
      [] kind = "missing" -> NaN

\* satGEM.v[clon_idx, lat_idx, z_idx, t_idx]
v_data(kind, clon_idx, lat_idx, z_idx, t_idx) ==
    CASE kind = "rest"    -> Zero
      [] kind = "shear"   -> Q(z_idx - clon_idx, 2)
      [] kind = "missing" -> NaN

-----------------------------------------------------------------------------
(* Wave.__init__ *)

WaveInit(a) ==
    [k    |-> a.k,
     m    |-> a.l,
     l    |-> a.m,
     w0   |-> a.w0,
     z0   |-> a.z0,
     lat0 |-> a.lat,
     lon0 |-> a.lon,
     t0   |-> T0Fixed]

\* np.arange(start, stop, timedelta(seconds=step)) on datetimes
arange(start, stop, step) ==
    LET span == IAbs(stop - start)
        n    == IF (stop - start) * step <= 0 THEN 0
                ELSE (span + IAbs(step) - 1) \div IAbs(step)
    IN  [j \in 1..n |-> start + (j - 1) * step]

-----------------------------------------------------------------------------
(* State *)

VARIABLES
    args,      \* the caller's arguments to Wave(...) and run_tracing(...)
    field,     \* the satGEM field object (read only)
    wave,      \* the Wave object
    pc,        \* "ready", "Running", "Broke", "Exhausted", "returned", "raised"
    msg,       \* the message printed by the break taken, "" when none
    tstep,     \* run_tracing's tstep (signed once the run has begun)
    time,      \* the time vector
    i,         \* the loop index (numpy's, from 0); -1 while unbound
    ray,       \* x, y, z, k, l, m, Omega, lat, lon
    loc,       \* the loop body's other locals
    traj,      \* x_all, ..., lon_all, cgx, cgy, cgz
    results    \* the dictionary returned

vars == <<args, field, wave, pc, msg, tstep, time, i, ray, loc, traj, results>>

\* The inputs the runs are drawn from
Ks         == {I(0), I(1)}
Ls         == {I(-1), I(1)}
Ms         == {I(-1), I(2)}
W0s        == {I(-2), I(2)}
Z0s        == {Q(2, 3), I(3)}
Lats       == {Q(-7, 4)}
Lons       == {I(0)}
T0s        == {T0Fixed, 4}
Directions == {"reverse", "forward"}
Durations  == 1..MaxHours
TSteps     == {1, 2}

ArgSet ==
    [k : Ks, l : Ls, m : Ms, w0 : W0s, z0 : Z0s, lat : Lats, lon : Lons,
     t0 : T0s, time_direction : Directions, duration : Durations,
     tstep : TSteps]

\* the fields: at rest or moving, uniform or not, whole or with missing data
FieldSet ==
    {[n2 |-> "uniform", u |-> "rest",    v |-> "rest"],
     [n2 |-> "uniform", u |-> "jet",     v |-> "rest"],
     [n2 |-> "uniform", u |-> "rest",    v |-> "shear"],
     [n2 |-> "front",   u |-> "rest",    v |-> "rest"],
     [n2 |-> "front",   u |-> "jet",     v |-> "shear"],
     [n2 |-> "gap",     u |-> "rest",    v |-> "rest"],
     [n2 |-> "gap",     u |-> "missing", v |-> "missing"],
     [n2 |-> "uniform", u |-> "gap",     v |-> "rest"],
     [n2 |-> "uniform", u |-> "gap",     v |-> "missing"],
     [n2 |-> "uniform", u |-> "missing", v |-> "rest"],
     [n2 |-> "uniform", u |-> "rest",    v |-> "missing"],
     [n2 |-> "front",   u |-> "jet",     v |-> "missing"]}

NoSeries ==
    [x |-> <<>>, y |-> <<>>, z |-> <<>>, k |-> <<>>, l |-> <<>>, m |-> <<>>,
     omega |-> <<>>, lat |-> <<>>, lon |-> <<>>,
     CGx |-> <<>>, CGy |-> <<>>, CGz |-> <<>>]

NoResults ==
    [x |-> <<>>, y |-> <<>>, z |-> <<>>, k |-> <<>>, l |-> <<>>, m |-> <<>>,
     omega |-> <<>>, lat |-> <<>>, lon |-> <<>>,
     CGx |-> <<>>, CGy |-> <<>>, CGz |-> <<>>, time |-> <<>>]

NoIndex == [lon |-> 0, lat |-> 0, z |-> 0, t |-> 0, clon |-> 0, clat |-> 0]

\* the loop body's locals before the first iteration has bound them
NoLocals ==
    [f |-> NaN, idx |-> NoIndex, N2 |-> NaN, u |-> NaN, v |-> NaN,
     dx |-> NaN, dy |-> NaN, dz |-> NaN, idx2 |-> NoIndex, N2_2 |-> NaN,
     dN |-> NaN, u2 |-> NaN, v2 |-> NaN, du |-> NaN, dv |-> NaN,
     rx |-> NaN, ry |-> NaN, rz |-> NaN]

NoRay ==
    [x |-> NaN, y |-> NaN, z |-> NaN, k |-> NaN, l |-> NaN, m |-> NaN,
     Omega |-> NaN, lat |-> NaN, lon |-> NaN]

Init ==
    /\ args \in ArgSet
    /\ field \in FieldSet
    /\ wave = WaveInit(args)
    /\ pc = "ready"
    /\ msg = ""
    /\ tstep = args.tstep
    /\ time = <<>>
    /\ i = -1
    /\ ray = NoRay
    /\ loc = NoLocals
    /\ traj = NoSeries
    /\ results = NoResults

-----------------------------------------------------------------------------
(* run_tracing *)

\* lines 436-486: the start values, the first record, the time vector
Begin ==
    /\ pc = "ready"
    /\ LET r0 == [x |-> Zero, y |-> Zero, z |-> wave.z0, k |-> wave.k,
                  l |-> wave.l, m |-> wave.m, Omega |-> wave.w0,
                  lat |-> wave.lat0, lon |-> wave.lon0]
           start_time == wave.t0
           ts == IF args.time_direction = "reverse" THEN -args.tstep
                 ELSE args.tstep
           end_time == IF args.time_direction = "reverse"
                       THEN start_time - args.duration * StepsPerHour
                       ELSE start_time + args.duration * StepsPerHour
           tv == arange(start_time, end_time, ts)
       IN  /\ ray' = r0
           /\ traj' = [NoSeries EXCEPT
                         !.x = <<r0.x>>, !.y = <<r0.y>>, !.z = <<r0.z>>,
                         !.k = <<r0.k>>, !.l = <<r0.l>>, !.m = <<r0.m>>,
                         !.omega = <<r0.Omega>>, !.lat = <<r0.lat>>,
                         !.lon = <<r0.lon>>]
           /\ tstep' = ts
           /\ time' = tv
           /\ loc' = [loc EXCEPT
                        !.idx = locate(r0.lon, r0.lat, r0.z, I(tv[1]))]
    /\ pc' = "Running"
    /\ UNCHANGED <<args, field, wave, msg, i, results>>

\* time[j] with numpy's index j
TimeAt(j) == I(time[j + 1])

\* lines 491-511: f, the cell of the ray, and its N2, u and v
Sampled(r, j) ==
    Only({[f |-> gsw_f(r.lat), idx |-> idx,
           N2 |-> Nsquared(field.n2, idx.lon, idx.lat, idx.t)[ArgMin(p_grid, r.z)],
           u |-> u_data(field.u, idx.lon, idx.clat, idx.z, idx.t),
           v |-> v_data(field.v, idx.clon, idx.lat, idx.z, idx.t)]
          : idx \in {locate(r.lon, r.lat, r.z, TimeAt(j))}})

\* line 582 with <= for <
HitSurface_OrAtSurface(z) == Lt(z, Zero) \/ z = Zero

\* line 582
HitSurface(z) == Lt(z, Zero)

\* lines 523, 529, 533
Displacement(r, s) ==
    [dx |-> Mul(I(tstep), CGx(s.N2, r.Omega, r.k, r.l, r.m, s.u, s.f)),
     dy |-> Mul(I(tstep), CGy(s.N2, r.Omega, r.k, r.l, r.m, s.v, s.f)),
     dz |-> Mul(I(tstep), CGz(r.Omega, r.k, r.l, r.m, s.f, s.N2))]

\* lines 524, 530, 534
Moved(r, d) ==
    [x |-> Add(r.x, d.dx), y |-> Add(r.y, d.dy), z |-> Add(r.z, d.dz)]

\* lines 544-550: the second N2 sample, read from the profile of the cell
\* (lon_idx, lat_idx, t_idx) of the first
SecondN2(s, idx2, z) ==
    LET N2_vert2 == Nsquared(field.n2, s.idx.lon, s.idx.lat, s.idx.t)
        idx_n2 == ArgMin(p_grid, z)
    IN  Abs(N2_vert2[idx_n2])

\* lines 540-560: the samples at the new position and the differences
Resampled(s, idx2, N2_2) ==
    LET u2 == u_data(field.u, idx2.lon, idx2.clat, idx2.z, idx2.t)
        v2 == v_data(field.v, idx2.clon, idx2.lat, idx2.z, idx2.t)
    IN  [idx2 |-> idx2, N2_2 |-> N2_2, N |-> Sqrt(N2_2),
         dN |-> Sub(Sqrt(N2_2), Sqrt(Abs(s.N2))),
         u2 |-> u2, v2 |-> v2, du |-> Sub(u2, s.u), dv |-> Sub(v2, s.v)]

\* line 563 with the arguments du and dx of dk exchanged
kStep_ArgumentsSwapped(r, d, q) ==
    Add(r.k, Mul(dk(d.dx, q.dv, q.du, r.k, r.l, r.m, q.dN, q.N, r.Omega),
                 I(tstep)))

\* lines 563, 566, 569
kStep(r, d, q) ==
    Add(r.k, Mul(dk(q.du, q.dv, d.dx, r.k, r.l, r.m, q.dN, q.N, r.Omega),
                 I(tstep)))

lStep(r, d, q, k) ==
    Add(r.l, Mul(dl(q.du, q.dv, d.dy, k, r.l, r.m, q.dN, q.N, r.Omega),
                 I(tstep)))

mStep(r, d, q, k, l) ==
    Add(r.m, Mul(dm(q.du, q.dv, d.dz, k, l, r.m, q.dN, q.N, r.Omega),
                 I(tstep)))

\* lines 572-574
Refractions(r, d, q, k, l, m) ==
    [rx |-> refraction(q.N, k, l, m, q.dN, d.dx, r.Omega),
     ry |-> refraction(q.N, k, l, m, q.dN, d.dy, r.Omega),
     rz |-> refraction(q.N, k, l, m, q.dN, d.dz, r.Omega)]

\* line 576
OmegaStep(r, q, k, l, rr) ==
    Add(r.Omega, Mul(dOmega(rr.rx, rr.ry, rr.rz, k, l, q.du, q.dv),
                     I(tstep)))

\* lines 522-580: one step of the ray from r with the samples s: the new
\* ray and the locals it binds.  Read from the last line up: d, a, p2, idx2,
\* N2_2, q, k, l, m, rr are bound in the order the loop body assigns them.
Stepped(r, s, j) ==
    Only({ Only({ Only({ Only({ Only({ Only({ Only({ Only({ Only({ Only({
        [ray |-> [x |-> a.x, y |-> a.y, z |-> a.z, k |-> k, l |-> l,
                  m |-> m, Omega |-> OmegaStep(r, q, k, l, rr),
                  lat |-> p2.lat, lon |-> p2.lon],
         loc |-> [f |-> s.f, idx |-> s.idx, N2 |-> s.N2, u |-> s.u,
                  v |-> s.v, dx |-> d.dx, dy |-> d.dy, dz |-> d.dz,
                  idx2 |-> q.idx2, N2_2 |-> q.N2_2, dN |-> q.dN,
                  u2 |-> q.u2, v2 |-> q.v2, du |-> q.du, dv |-> q.dv,
                  rx |-> rr.rx, ry |-> rr.ry, rz |-> rr.rz]]
        : rr \in {Refractions(r, d, q, k, l, m)} })
        : m \in {mStep(r, d, q, k, l)} })
        : l \in {lStep(r, d, q, k)} })
        : k \in {kStep(r, d, q)} })
        : q \in {Resampled(s, idx2, N2_2)} })
        : N2_2 \in {SecondN2(s, idx2, a.z)} })
        : idx2 \in {locate(p2.lon, p2.lat, a.z, TimeAt(j + 1))} })
        : p2 \in {inverse_hav(a.x, a.y, r.lon, r.lat)} })
        : a \in {Moved(r, d)} })
        : d \in {Displacement(r, s)} })

\* the for statement has another element of time[:-1] to give
MoreSteps == pc = "Running" /\ i + 1 < Len(time) - 1

\* lines 506-508
N2Error ==
    /\ MoreSteps
    /\ \E s \in {Sampled(ray, i + 1)} :
           /\ ~isfinite(s.N2)
           /\ loc' = [loc EXCEPT !.f = s.f, !.idx = s.idx, !.N2 = s.N2]
    /\ i' = i + 1
    /\ msg' = "N2 error"
    /\ pc' = "Broke"
    /\ UNCHANGED <<args, field, wave, tstep, time, ray, traj, results>>

\* lines 513-515
UError ==
    /\ MoreSteps
    /\ \E s \in {Sampled(ray, i + 1)} :
           /\ isfinite(s.N2)
           /\ ~isfinite(s.u)
           /\ loc' = [loc EXCEPT !.f = s.f, !.idx = s.idx, !.N2 = s.N2,
                                 !.u = s.u, !.v = s.v]
    /\ i' = i + 1
    /\ msg' = "u error"
    /\ pc' = "Broke"
    /\ UNCHANGED <<args, field, wave, tstep, time, ray, traj, results>>

\* lines 517-519
VError ==
    /\ MoreSteps
    /\ \E s \in {Sampled(ray, i + 1)} :
           /\ isfinite(s.N2)
           /\ isfinite(s.u)
           /\ ~isfinite(s.v)
           /\ loc' = [loc EXCEPT !.f = s.f, !.idx = s.idx, !.N2 = s.N2,
                                 !.u = s.u, !.v = s.v]
    /\ i' = i + 1
    /\ msg' = "v error"
    /\ pc' = "Broke"
    /\ UNCHANGED <<args, field, wave, tstep, time, ray, traj, results>>

\* lines 522-584: the step is taken and the ray is above the surface
Surface ==
    /\ MoreSteps
    /\ \E s \in {Sampled(ray, i + 1)} :
           /\ isfinite(s.N2) /\ isfinite(s.u) /\ isfinite(s.v)
           /\ \E n \in {Stepped(ray, s, i + 1)} :
               /\ HitSurface(n.ray.z)
               /\ ray' = n.ray
               /\ loc' = n.loc
    /\ i' = i + 1
    /\ msg' = "Wave hit surface"
    /\ pc' = "Broke"
    /\ UNCHANGED <<args, field, wave, tstep, time, traj, results>>

\* lines 522-599: the step is taken and recorded
Store ==
    /\ MoreSteps
    /\ \E s \in {Sampled(ray, i + 1)} :
           /\ isfinite(s.N2) /\ isfinite(s.u) /\ isfinite(s.v)
           /\ \E n \in {Stepped(ray, s, i + 1)} :
               /\ ~HitSurface(n.ray.z)
               /\ ray' = n.ray
               /\ loc' = n.loc
               /\ traj' =
                    [x     |-> Append(traj.x, n.ray.x),
                     y     |-> Append(traj.y, n.ray.y),
                     z     |-> Append(traj.z, n.ray.z),
                     k     |-> Append(traj.k, n.ray.k),
                     l     |-> Append(traj.l, n.ray.l),
                     m     |-> Append(traj.m, n.ray.m),
                     omega |-> Append(traj.omega, n.ray.Omega),
                     lat   |-> Append(traj.lat, n.ray.lat),
                     lon   |-> Append(traj.lon, n.ray.lon),
                     CGx   |-> Append(traj.CGx, Div(n.loc.dx, I(tstep))),
                     CGy   |-> Append(traj.CGy, Div(n.loc.dy, I(tstep))),
                     CGz   |-> Append(traj.CGz, Div(n.loc.dz, I(tstep)))]
    /\ i' = i + 1
    /\ UNCHANGED <<args, field, wave, pc, msg, tstep, time, results>>

\* line 489: time[:-1] is used up
LoopEnd ==
    /\ pc = "Running"
    /\ ~MoreSteps
    /\ pc' = "Exhausted"
    /\ UNCHANGED <<args, field, wave, msg, tstep, time, i, ray, loc, traj,
                   results>>

\* lines 602-619: np.vstack of an empty list raises ValueError; the CG
\* lists are empty when no step was recorded
Return ==
    /\ pc \in {"Broke", "Exhausted"}
    /\ IF traj.CGx = <<>>
       THEN /\ pc' = "raised"
            /\ UNCHANGED results
       ELSE /\ pc' = "returned"
            /\ results' =
                 [x |-> traj.x, y |-> traj.y, z |-> traj.z, k |-> traj.k,
                  l |-> traj.l, m |-> traj.m, omega |-> traj.omega,
                  lon |-> traj.lon, lat |-> traj.lat, CGx |-> traj.CGx,
                  CGy |-> traj.CGy, CGz |-> traj.CGz,
                  time |-> SubSeq(time, 1, i + 1)]
    /\ UNCHANGED <<args, field, wave, msg, tstep, time, i, ray, loc, traj>>

Next ==
    \/ Begin
    \/ N2Error
    \/ UError
    \/ VError
    \/ Surface
    \/ Store
    \/ LoopEnd
    \/ Return

Spec == Init /\ [][Next]_vars

-----------------------------------------------------------------------------
(* Properties *)

\* run_tracing has come to its end, by a return or by an exception
Ended == pc \in {"returned", "raised"}

\* the terminal reason the break taken stands for
Reason ==
    CASE msg = "N2 error"         -> "InvalidBuoyancy"
      [] msg \in {"u error", "v error"} -> "InvalidVelocity"
      [] msg = "Wave hit surface" -> "SurfaceHit"
      [] OTHER                    -> "ReachedDuration"

\* the number of records of the series q
Records(q) == Len(q.x)

Last(seq) == seq[Len(seq)]

\* C1: when the field gives a non-finite u or v on the very first step,
\* run_tracing does not raise: it returns a trajectory of exactly one record
\* (the initial state), with the reason InvalidVelocity.
C1_FirstStepInvalidVelocityReturns ==
    (Ended /\ i = 0 /\ msg \in {"u error", "v error"})
        => /\ pc = "returned"
           /\ Records(results) = 1
           /\ Reason = "InvalidVelocity"

\* the depth bound of C2: the program takes no seafloor argument, so the
\* deepest level of the field's depth grid stands for it
SeafloorDepth == Last(depth_grid)

\* C2: no Running state has z greater than the seafloor depth: a step that
\* leaves z below the seafloor ends the run with SeafloorHit.
C2_NeverRunningBelowSeafloor ==
    pc = "Running" => ~Lt(SeafloorDepth, ray.z)

\* C3: in every Running state |Omega| > |f|, f the Coriolis parameter at the
\* ray's latitude; a step that would leave |Omega| <= |f| ends the run.
C3_RunningOmegaAboveCoriolis ==
    pc = "Running" => Lt(Abs(gsw_f(ray.lat)), Abs(ray.Omega))

\* C4: a step's frequency update is
\* Omega + tstep*(r_x + r_y + r_z + k*du + l*dv), with r_z counted and r_x
\* counted once.  Stated of the step just recorded.
C4_OmegaUpdateSumsRxRyRz ==
    (pc = "Running" /\ Len(traj.omega) >= 2)
        => ray.Omega =
             Add(traj.omega[Len(traj.omega) - 1],
                 Mul(Add(Add(Add(Add(loc.rx, loc.ry), loc.rz),
                             Mul(ray.k, loc.du)),
                         Mul(ray.l, loc.dv)),
                     I(tstep)))

\* C5: the first record of the trajectory and the start time are the
\* caller's Wave(k, l, m, w0, z0, lat, lon, t0), field by field.
C5_FirstRecordIsTheArguments ==
    pc # "ready"
        => /\ traj.k[1] = args.k
           /\ traj.l[1] = args.l
           /\ traj.m[1] = args.m
           /\ traj.omega[1] = args.w0
           /\ traj.z[1] = args.z0
           /\ traj.lon[1] = args.lon
           /\ traj.lat[1] = args.lat
           /\ time[1] = args.t0

\* C6: the second buoyancy sample of a step is read from the cell at the
\* ray's new position and next time, the cell locate(lon2, lat2, z, time[i+1])
\* gives, as u' and v' are.  Stated of the step just recorded.
C6_SecondN2FromNewCell ==
    (pc = "Running" /\ Len(traj.z) >= 2)
        => loc.N2_2 =
             Abs(Nsquared(field.n2, loc.idx2.lon, loc.idx2.lat,
                          loc.idx2.t)[ArgMin(p_grid, ray.z)])

\* a field that is uniform everywhere and at rest: N2 constant, u = v = 0
UniformAtRest == field = [n2 |-> "uniform", u |-> "rest", v |-> "rest"]

NonZero(a) == isfinite(a) /\ a.n # 0

\* every step recorded so far displaced the ray in x, in y and in z
AllStepsMove ==
    \A j \in 1..Len(traj.CGx) :
        NonZero(traj.CGx[j]) /\ NonZero(traj.CGy[j]) /\ NonZero(traj.CGz[j])

\* k, l, m and Omega of every record are those of the first
Stationary ==
    \A j \in 1..Len(traj.k) :
        /\ traj.k[j] = traj.k[1]
        /\ traj.l[j] = traj.l[1]
        /\ traj.m[j] = traj.m[1]
        /\ traj.omega[j] = traj.omega[1]

\* every step changed the recorded depth by the increment of the first
EqualIncrements ==
    \A j \in 1..(Len(traj.z) - 1) :
        Sub(traj.z[j + 1], traj.z[j]) = Sub(traj.z[2], traj.z[1])

\* the Coriolis parameter was the same at every recorded position
SameCoriolis ==
    \A j \in 1..Len(traj.lat) : gsw_f(traj.lat[j]) = gsw_f(traj.lat[1])

\* C7 as stated: over a uniform field at rest and with non-zero
\* displacements, every step leaves k, l, m and Omega at their initial
\* values and changes the recorded depth by the same signed increment.
C7_UniformFieldSameIncrement ==
    (UniformAtRest /\ AllStepsMove) => (Stationary /\ EqualIncrements)

\* C7 as amended: over a uniform field at rest and with non-zero
\* displacements, every step leaves k, l, m and Omega at their initial
\* values, and changes the recorded depth by tstep*CGz of those values and
\* of the Coriolis parameter at the latitude the step starts from; the
\* increments are equal when that parameter is the same along the ray.
C7_UniformFieldStationary ==
    (UniformAtRest /\ AllStepsMove)
        => /\ Stationary
           /\ \A j \in 1..(Len(traj.z) - 1) :
                  traj.z[j + 1] =
                      Add(traj.z[j],
                          Mul(I(tstep),
                              CGz(wave.w0, wave.k, wave.l, wave.m,
                                  gsw_f(traj.lat[j]),
                                  Nsquared("uniform", 1, 1, 1)[1])))
           /\ SameCoriolis => EqualIncrements

\* three steps over a uniform field at rest, the ray moving in x, y and z,
\* with the Coriolis parameter changed along the way and the third depth
\* increment different from the first
C7_Witness ==
    /\ UniformAtRest
    /\ AllStepsMove
    /\ Len(traj.z) >= 4
    /\ gsw_f(traj.lat[3]) # gsw_f(traj.lat[1])
    /\ ~EqualIncrements

\* the vertical group velocity of every recorded step is that of the last
\* step taken
ConstantCGz ==
    /\ isfinite(loc.dz)
    /\ \A j \in 1..Len(traj.CGz) : traj.CGz[j] = Div(loc.dz, I(tstep))

\* the last step taken carried the ray toward the surface
Rising == Lt(loc.dz, Zero)

C9_StepsThroughWholeDuration ==
    pc = "Exhausted"
        => /\ (args.duration * StepsPerHour) % args.tstep = 0
                => i + 1 = (args.duration * StepsPerHour) \div args.tstep
           /\ \A j \in 1..(Len(time) - 1) :
                  IF args.time_direction = "reverse"
                  THEN time[j + 1] < time[j]
                  ELSE time[j + 1] > time[j]

\* C10: when run_tracing returns, the time series, the series of the wave
\* state and the series of the group velocity all have the same length.
C10_SeriesOfEqualLength ==
    pc = "returned"
        => \A n \in {Len(results.time), Len(results.y), Len(results.z),
                     Len(results.lon), Len(results.lat), Len(results.k),
                     Len(results.l), Len(results.m), Len(results.omega),
                     Len(results.CGx), Len(results.CGy), Len(results.CGz)} :
               n = Len(results.x)

=============================================================================
